---- MODULE Spec2Model ----
(***************************************************************************)
(* Model of the memory-consolidation store and pipeline:                   *)
(*   - the memories table of memory.db and the statements that write it    *)
(*     (3-commit-to-db.js, the MCP server's memory_store, memory-cli.js,   *)
(*     extract-instincts.js, extract-errors.js, instinct-cli.js,           *)
(*     extract-agent-learnings.js);                                        *)
(*   - the pipeline of run_pipeline.sh: 1-extract-facts.js with its        *)
(*     .processed_sessions ledger, 2-align-temporally.js, 3-commit-to-db;  *)
(*   - the full-text index memories_fts and the statements that keep it;   *)
(*   - dedup-decision.js and its fallbacks;                                *)
(*   - the token-monitor hook, its lock file and its detached worker.      *)
(* Instants (ISO-8601 strings in the code) are integers 1..MaxTime, in     *)
(* their lexicographic order; a NULL end_time is the value NULL.           *)
(***************************************************************************)
EXTENDS Integers, Sequences, FiniteSets, TLC

\* ---------------------------------------------------------------- bounds
MaxTime == 2
MaxBatch == 2
MaxFacts == 3

\* ------------------------------------------------------------ value sets
NULL == 0
Times == 1..MaxTime
Keys == {"user.name", "tool.editor"}
Values == {"v1", "v2"}

\* The JSON text extract-errors.js stores for an error pattern seen count times.
CountValues == <<"c1", "c2">>
AllValues == Values \cup {CountValues[n] : n \in DOMAIN CountValues}

\* A fact value as parsed from JSON: a string, or a non-string JSON value
\* (boolean, number, object) given by its JSON text.
FactValues == [str : {TRUE}, text : Values] \cup {[str |-> FALSE, text |-> "v1"]}

\* 3-commit-to-db.js:79  typeof fact.value === 'string' ? fact.value : JSON.stringify(fact.value)
valStr(v) == v.text

\* A row of the memories table; (key, start_time) is the primary key.
Rows == [key : Keys, value : AllValues, start_time : Times, end_time : Times \cup {NULL}]

TimedFacts == [key : Keys, value : FactValues, start_time : Times, end_time : Times \cup {NULL}]

\* The outcome of dedupDecision(fact, db): action and target (NULL-like "" when absent).
Decisions == [action : {"skip", "create"}, target : {""}]
             \cup [action : {"merge"}, target : Keys \cup {""}]

VARIABLES
  memories,    \* the memories table: a set of rows
  clock,       \* the wall clock read by new Date()
  superseded,  \* history: the supersessions made by the last writer
  trail,       \* history: the branches the last writer took, one per item
  procs,       \* the store calls of two concurrent processes, statement by statement
  ledger,      \* .processed_sessions: the sessionId|mtime lines
  factsFile,   \* facts.jsonl
  timedFile,   \* timed_facts.jsonl
  run,         \* the position of run_pipeline.sh, and what its stages reported
  lock,        \* /tmp/gemini-extract.lock: absent, a record, or unreadable
  hooks,       \* the token-monitor hook processes, step by step
  workers,     \* the token-monitor workers the hooks forked, by pid
  fts,         \* memories_fts: the rows that have an index entry
  peer,        \* a second run_pipeline.sh started while the first one runs
  embedding,   \* the rows of memories whose embedding column is not NULL
  flight,      \* the embedding calls awaited: the rowids each will write to
  files,       \* the staging snapshots and temp files on disk
  job,         \* one extraction of the token monitor: the hook's snapshot, then its worker
  asked,       \* the last memory_search call: its limit and filters
  answer,      \* the rows that call returned
  digest,      \* memory_digest.json\
  gemini,      \* the Gemini sessions on disk, their gemini* lines in .processed_sessions, and a --gemini run
  ender,       \* the processes of gemini-session-extract.js, by pid
  endLock,     \* the file /tmp/gemini-session-extract.lock
  wk           \* the run of token-monitor-worker.js (what its file MEMORY_ROOT/facts.jsonl holds, what the extractor produced, what the run read and committed)

vars == <<memories, clock, superseded, trail, procs, ledger, factsFile, timedFile, run,
         lock, hooks, workers, fts, peer, embedding, flight,
         files, job,
         asked, answer,
         digest,
         gemini,
         ender, endLock,
         wk>>
storeVars == <<memories, superseded, trail>>
pipelineVars == <<ledger, factsFile, timedFile, run>>
lockVars == <<lock, hooks, workers>>
indexVars == <<fts>>
embedVars == <<embedding, flight>>
tempVars == <<files, job>>
searchVars == <<asked, answer>>
digestVars == <<digest>>
geminiVars == <<gemini>>
sessionVars == <<ender, endLock>>
wkVars == <<wk>>
otherVars == <<embedVars, tempVars, searchVars, digestVars, geminiVars, sessionVars, wkVars>>

\* --------------------------------------------------------- SQL statements
\* SELECT ... FROM memories WHERE key = ? AND end_time IS NULL
activeRows(rows, key) == {r \in rows : r.key = key /\ r.end_time = NULL}

\* .get() on that statement: the first row in primary-key order, or none.
hasActive(rows, key) == activeRows(rows, key) # {}

findActive(rows, key) ==
  CHOOSE r \in activeRows(rows, key) :
    \A o \in activeRows(rows, key) : r.start_time <= o.start_time

\* faulty variants of the closing statement: one closes nothing, one closes
\* the row at its own start_time
deactivateNothing(rows, end, key, start) == rows

deactivateAtStart(rows, end, key, start) ==
  {IF r.key = key /\ r.start_time = start THEN [r EXCEPT !.end_time = start] ELSE r
     : r \in rows}

\* UPDATE memories SET end_time = ? WHERE key = ? AND start_time = ?
deactivate(rows, end, key, start) ==
  {IF r.key = key /\ r.start_time = start THEN [r EXCEPT !.end_time = end] ELSE r
     : r \in rows}

\* UPDATE memories SET end_time = ? WHERE key = ? AND end_time IS NULL
closeActive(rows, end, key) ==
  {IF r.key = key /\ r.end_time = NULL THEN [r EXCEPT !.end_time = end] ELSE r
     : r \in rows}

\* SELECT rowid FROM memories WHERE key = ? AND start_time = ?
pkExists(rows, key, start) == \E r \in rows : r.key = key /\ r.start_time = start

\* INSERT OR REPLACE INTO memories ...: a row with the same primary key is deleted first
insertOrReplace(rows, row) ==
  {r \in rows : ~(r.key = row.key /\ r.start_time = row.start_time)} \cup {row}

\* INSERT INTO memories ...: only called where the primary key is free
insert(rows, row) == rows \cup {row}

Row(k, v, s, e) == [key |-> k, value |-> v, start_time |-> s, end_time |-> e]

\* history record of one supersession: the active row (key, old) was closed
\* and a row starting at new was inserted; oldEnd is the end_time of the row
\* (key, old) once both statements have run.
Super(rows, k, old, new) ==
  [key |-> k, old |-> old, new |-> new,
   oldEnd |-> (CHOOSE r \in rows : r.key = k /\ r.start_time = old).end_time]

NoResult == [newCount |-> 0, updatedCount |-> 0, mergedCount |-> 0, skippedCount |-> 0]

\* ------------------------------------------------- 3-commit-to-db.js
\* One iteration of the loop of commitFacts over the state
\* s = [rows, ev, res, path]: the table, the supersessions so far, the
\* counters, and the branch taken for each fact.
commitFact(s, fact, decision) ==
  LET v == valStr(fact.value)
      upsertUnder(k, counter) ==
        LET a == findActive(s.rows, k)
            closed == deactivate(s.rows, fact.start_time, a.key, a.start_time)
            put == insertOrReplace(closed, Row(k, v, fact.start_time, fact.end_time))
        IN [rows |-> put,
            ev   |-> s.ev \cup {Super(put, k, a.start_time, fact.start_time)},
            res  |-> [s.res EXCEPT ![counter] = @ + 1],
            path |-> Append(s.path, counter)]
  IN IF decision.action = "skip"
       THEN [s EXCEPT !.res.skippedCount = @ + 1, !.path = Append(@, "dedupSkip")]
     ELSE IF decision.action = "merge" /\ decision.target # ""
             /\ hasActive(s.rows, decision.target)
       THEN upsertUnder(decision.target, "mergedCount")
     ELSE IF hasActive(s.rows, fact.key)
       THEN IF findActive(s.rows, fact.key).value = v
              THEN [s EXCEPT !.res.skippedCount = @ + 1, !.path = Append(@, "sameValue")]
              ELSE upsertUnder(fact.key, "updatedCount")
     ELSE [s EXCEPT !.rows = insertOrReplace(s.rows, Row(fact.key, v, fact.start_time, fact.end_time)),
                    !.res.newCount = @ + 1,
                    !.path = Append(@, "newCount")]

RECURSIVE commitFrom(_, _, _, _)
commitFrom(s, facts, decisions, i) ==
  IF i > Len(facts) THEN s
  ELSE commitFrom(commitFact(s, facts[i], decisions[i]), facts, decisions, i + 1)

\* commitFacts(db, facts): decisions[i] is what dedupDecision answers for facts[i]
commitFacts(rows, facts, decisions) ==
  commitFrom([rows |-> rows, ev |-> {}, res |-> NoResult, path |-> <<>>], facts, decisions, 1)

\* --------------------------------------- memory_store and its siblings
\* The statements of the MCP tool memory_store, each in its own implicit
\* transaction: close the active rows of the key at now, then insert.  A
\* primary-key conflict makes the INSERT throw after the UPDATE has been applied.
memory_store(rows, now, key, value) ==
  LET closed == closeActive(rows, now, key)
  IN IF pkExists(closed, key, now)
       THEN [rows |-> closed, ev |-> {}, ok |-> FALSE]
       ELSE [rows |-> insert(closed, Row(key, value, now, NULL)),
             ev   |-> {Super(closed, key, a.start_time, now) : a \in activeRows(rows, key)},
             ok   |-> TRUE]

\* memory-cli.js store <key> <value>
cmdStore(rows, now, key, value) ==
  LET closed == closeActive(rows, now, key)
  IN IF pkExists(closed, key, now)
       THEN [rows |-> closed, ev |-> {}, ok |-> FALSE]
       ELSE [rows |-> insert(closed, Row(key, value, now, NULL)),
             ev   |-> {Super(closed, key, a.start_time, now) : a \in activeRows(rows, key)},
             ok   |-> TRUE]

\* ------------------------------------------------ extract-instincts.js
\* storeInstincts(instincts): closeOld + insert for each instinct, all in one
\* db.transaction; a throwing INSERT rolls the whole transaction back.
RECURSIVE storeInstinctsFrom(_, _, _, _)
storeInstinctsFrom(s, now, instincts, i) ==
  IF i > Len(instincts) \/ ~s.ok THEN s
  ELSE LET key == instincts[i].key
           closed == closeActive(s.rows, now, key)
       IN IF pkExists(closed, key, now)
            THEN [s EXCEPT !.ok = FALSE]
            ELSE storeInstinctsFrom(
                   [rows |-> insert(closed, Row(key, instincts[i].value, now, NULL)),
                    ev   |-> s.ev \cup {Super(closed, key, a.start_time, now)
                                          : a \in activeRows(s.rows, key)},
                    ok   |-> TRUE],
                   now, instincts, i + 1)

storeInstincts(rows, now, instincts) ==
  LET s == storeInstinctsFrom([rows |-> rows, ev |-> {}, ok |-> TRUE], now, instincts, 1)
  IN IF s.ok THEN s ELSE [rows |-> rows, ev |-> {}, ok |-> FALSE]

\* --------------------------------------------------- extract-errors.js
isCount(v) == \E n \in DOMAIN CountValues : CountValues[n] = v
countOf(v) == CHOOSE n \in DOMAIN CountValues : CountValues[n] = v

\* extract-errors.js:138-168  the count the new record carries: one more than
\* the parsed count of the active record, 2 when that record does not parse, 1
\* when there is none.
newCount(rows, key) ==
  IF ~hasActive(rows, key) THEN 1
  ELSE IF isCount(findActive(rows, key).value)
         THEN countOf(findActive(rows, key).value) + 1
         ELSE 2

\* storeErrors(errors): no transaction; the loop stops at a throwing INSERT and
\* keeps what the earlier statements wrote.
RECURSIVE storeErrorsFrom(_, _, _, _)
storeErrorsFrom(s, now, errors, i) ==
  IF i > Len(errors) \/ ~s.ok THEN s
  ELSE LET key == errors[i]
           closed == IF hasActive(s.rows, key) THEN closeActive(s.rows, now, key) ELSE s.rows
       IN IF pkExists(closed, key, now)
            THEN [s EXCEPT !.rows = closed, !.ok = FALSE]
            ELSE storeErrorsFrom(
                   [rows |-> insert(closed, Row(key, CountValues[newCount(s.rows, key)], now, NULL)),
                    ev   |-> s.ev \cup {Super(closed, key, a.start_time, now)
                                          : a \in activeRows(s.rows, key)},
                    ok   |-> TRUE],
                   now, errors, i + 1)

storeErrors(rows, now, errors) ==
  storeErrorsFrom([rows |-> rows, ev |-> {}, ok |-> TRUE], now, errors, 1)

\* the counts of a run of storeErrors stay within the modelled JSON texts
RECURSIVE countsFit(_, _, _)
countsFit(rows, errors, i) ==
  IF i > Len(errors) THEN TRUE
  ELSE /\ newCount(rows, errors[i]) \in DOMAIN CountValues
       /\ countsFit(insertOrReplace(closeActive(rows, 1, errors[i]),
                                    Row(errors[i], CountValues[newCount(rows, errors[i])], 1, NULL)),
                    errors, i + 1)

\* ------------------------------------------------------ instinct-cli.js
\* deleteInstinct(key): UPDATE memories SET end_time = now WHERE key = ? AND end_time IS NULL
deleteInstinct(rows, now, key) == closeActive(rows, now, key)

\* ---------------------------------------------------------------- inputs
SeqsUpTo(S, n) == UNION {[1..m -> S] : m \in 1..n}

TimedFactsOf(K) == {f \in TimedFacts : f.key \in K}
DecisionsOf(K) == {d \in Decisions : d.target \in K \cup {""}}

\* ---------------------------------------------------------------- actions
Procs == {"p1", "p2"}
NoCall == [pc |-> "idle", now |-> NULL, value |-> ""]
NoRun == [pc |-> "idle", mode |-> "", queue |-> <<>>, src |-> "", status |-> "none",
          outcome |-> "none", appended |-> 0, failed |-> FALSE, ledger0 |-> {},
          again |-> FALSE, base |-> {}, ram |-> TRUE, calls |-> 0, exit |-> 0]

NoPeer == [pc |-> "idle", src |-> ""]

\* token-monitor.js: the hook processes, the pids fork() hands out, the lock file
Hooks == {"h1", "h2"}
MaxWorkers == 2
Pids == 1..MaxWorkers
NoLock == [state |-> "absent", pid |-> 0, timestamp |-> 0]
CorruptLock == [state |-> "corrupt", pid |-> 0, timestamp |-> 0]
LockRecord(pid, now) == [state |-> "record", pid |-> pid, timestamp |-> now]
\* the hook's input: promptTokenCount (num: it is a number) and os.freemem() in MB
NoInput == [num |-> FALSE, n |-> 0, freeMB |-> 0]
NoHook == [pc |-> "idle", seen |-> NoLock, child |-> 0, outcome |-> "none", input |-> NoInput]
\* three Gemini sessions on disk, none converted, no --gemini run under way
NoGemini == [pc |-> "idle", sessions |-> 1..3, tracked |-> {}, outDir |-> {}, count |-> 0,
             converted |-> {}, extracted |-> {}]
\* no memory_search call was made
NoAsk == [limit |-> 0, subject |-> "", maxAgeDays |-> 0, prefix |-> ""]
\* no extraction is under way
NoJob == [pc |-> "idle", path |-> "none", made |-> {}]
\* no embedding call is awaited, by memory_store or by 5-embed-facts.js
NoFlight == [store |-> {}, backfill |-> {}]
NoWorker == [state |-> "none", started |-> 0]

Init ==
  /\ wk = [rootFile |-> <<>>, status |-> 0, produced |-> <<>>, read |-> <<>>, committed |-> <<>>]
  /\ ender = [p \in Pids |-> [state |-> "none", outcome |-> "none"]]
  /\ endLock = NoLock
  /\ gemini = NoGemini
  /\ digest = [present |-> FALSE, total_facts |-> 0, categories |-> <<>>]
  /\ asked = NoAsk
  /\ answer = {}
  /\ lock = NoLock
  /\ hooks = [h \in Hooks |-> NoHook]
  /\ workers = [w \in Pids |-> NoWorker]
  /\ fts = {}
  /\ peer = NoPeer
  /\ embedding = {}
  /\ flight = NoFlight
  /\ files = {}
  /\ job = NoJob
  /\ memories = {}
  /\ clock = 1
  /\ superseded = {}
  /\ trail = <<>>
  /\ procs = [p \in Procs |-> NoCall]
  /\ ledger = {}
  /\ factsFile = <<>>
  /\ timedFile = <<>>
  /\ run = NoRun

\* what a writer leaves in the history variables
Note(track, ev, path) ==
  /\ superseded' = IF track THEN ev ELSE {}
  /\ trail' = IF track THEN path ELSE <<>>
  /\ UNCHANGED <<procs, pipelineVars, lockVars, indexVars, peer, otherVars>>

\* time passes between two reads of the clock
Tick ==
  /\ clock < MaxTime
  /\ clock' = clock + 1
  /\ UNCHANGED <<storeVars, procs, pipelineVars, lockVars, indexVars, peer, otherVars>>

\* 3-commit-to-db.js main with one timed fact in timed_facts.jsonl
CommitWith(fact, decision, track) ==
  LET s == commitFacts(memories, <<fact>>, <<decision>>)
  IN /\ memories' = s.rows
     /\ Note(track, s.ev, s.path)
     /\ UNCHANGED clock

CommitMain(K, track) ==
  \E fact \in TimedFactsOf(K), decision \in DecisionsOf(K) : CommitWith(fact, decision, track)

MemoryStore(K, track) ==
  \E key \in K, value \in Values :
    LET s == memory_store(memories, clock, key, value)
    IN /\ memories' = s.rows
       /\ Note(track, s.ev, <<IF s.ok THEN "stored" ELSE "conflict">>)
       /\ UNCHANGED clock

CmdStore(K, track) ==
  \E key \in K, value \in Values :
    LET s == cmdStore(memories, clock, key, value)
    IN /\ memories' = s.rows
       /\ Note(track, s.ev, <<IF s.ok THEN "stored" ELSE "conflict">>)
       /\ UNCHANGED clock

StoreInstincts(K, track) ==
  \E instincts \in SeqsUpTo([key : K, value : Values], MaxBatch) :
    LET s == storeInstincts(memories, clock, instincts)
    IN /\ memories' = s.rows
       /\ Note(track, s.ev, <<IF s.ok THEN "stored" ELSE "conflict">>)
       /\ UNCHANGED clock

StoreErrors(K, track) ==
  \E errors \in SeqsUpTo(K, MaxBatch) :
    /\ countsFit(memories, errors, 1)
    /\ LET s == storeErrors(memories, clock, errors)
       IN /\ memories' = s.rows
          /\ Note(track, s.ev, <<IF s.ok THEN "stored" ELSE "conflict">>)
          /\ UNCHANGED clock

DeleteInstinct(K, track) ==
  \E key \in K :
    /\ memories' = deleteInstinct(memories, clock, key)
    /\ Note(track, {}, <<"deleted">>)
    /\ UNCHANGED clock

\* the writers of C1, called one after another, on two keys
Next ==
  \/ Tick
  \/ CommitMain(Keys, FALSE)
  \/ MemoryStore(Keys, FALSE)
  \/ CmdStore(Keys, FALSE)
  \/ StoreInstincts(Keys, FALSE)
  \/ StoreErrors(Keys, FALSE)
  \/ DeleteInstinct(Keys, FALSE)

Spec == Init /\ [][Next]_vars

\* the same writers on one key, with the history variables recorded
OneKey == {"user.name"}

NextUpsert ==
  \/ Tick
  \/ CommitMain(OneKey, TRUE)
  \/ MemoryStore(OneKey, TRUE)
  \/ CmdStore(OneKey, TRUE)
  \/ StoreInstincts(OneKey, TRUE)
  \/ StoreErrors(OneKey, TRUE)
  \/ DeleteInstinct(OneKey, TRUE)

SpecUpsert == Init /\ [][NextUpsert]_vars

\* ------------------------------------------ two concurrent store calls
\* memory_store / memory-cli store run their statements without a
\* transaction, so each statement commits on its own and the statements of
\* another process may run in between.  Both calls write the key StoreKey.
StoreKey == "user.name"

\* const now = new Date().toISOString(), and the SELECT of the active row
StoreBegin(p) ==
  /\ procs[p].pc = "idle"
  /\ \E value \in Values :
       procs' = [procs EXCEPT ![p] = [pc |-> "selected", now |-> clock, value |-> value]]
  /\ UNCHANGED <<storeVars, clock, pipelineVars, lockVars, indexVars, peer, otherVars>>

\* UPDATE memories SET end_time = now WHERE key = ? AND end_time IS NULL
StoreClose(p) ==
  /\ procs[p].pc = "selected"
  /\ memories' = closeActive(memories, procs[p].now, StoreKey)
  /\ procs' = [procs EXCEPT ![p].pc = "closed"]
  /\ UNCHANGED <<superseded, trail, clock, pipelineVars, lockVars, indexVars, peer, otherVars>>

\* INSERT INTO memories ... VALUES (key, value, source, now, NULL); a
\* primary-key conflict throws and ends the call
StoreInsert(p) ==
  /\ procs[p].pc = "closed"
  /\ IF pkExists(memories, StoreKey, procs[p].now)
       THEN /\ procs' = [procs EXCEPT ![p].pc = "failed"]
            /\ UNCHANGED memories
       ELSE /\ memories' = insert(memories, Row(StoreKey, procs[p].value, procs[p].now, NULL))
            /\ procs' = [procs EXCEPT ![p].pc = "done"]
  /\ UNCHANGED <<superseded, trail, clock, pipelineVars, lockVars, indexVars, peer, otherVars>>

\* the transaction of 3-commit-to-db.js main, which the database serializes
\* with the statements of the store calls
CommitTransaction ==
  /\ \E fact \in TimedFactsOf({StoreKey}), decision \in DecisionsOf({StoreKey}) :
       memories' = commitFacts(memories, <<fact>>, <<decision>>).rows
  /\ trail' = <<"committed">>
  /\ UNCHANGED <<superseded, clock, procs, pipelineVars, lockVars, indexVars, peer, otherVars>>

NextConcurrent ==
  \/ Tick
  \/ \E p \in Procs : StoreBegin(p)
  \/ \E p \in Procs : StoreClose(p)
  \/ \E p \in Procs : StoreInsert(p)
  \/ CommitTransaction

SpecConcurrent == Init /\ [][NextConcurrent]_vars

\* ------------------------------------------------- 1-extract-facts.js
Sources == {"s1", "s2"}

\* extractTimestamp(filePath): the timestamp of the first record of the file
extractTimestamp(src) == IF src = "s1" THEN 1 ELSE 2

\* what readSessionMessages and filterConversation leave of a transcript
Transcripts == {"empty", "noise", "talk"}

\* the keys the extractor may answer: a key of the store, or its plural alias
RawKeys == {"user.name", "users.name"}
ExtractedFacts == [key : RawKeys, value : FactValues]

\* what the gemini process gives back for a chunk: it fails or times out
\* (status # 0), prints something that is not a JSON array, or prints an array
GeminiOutputs ==
  {[kind |-> "failed", facts |-> <<>>], [kind |-> "notArray", facts |-> <<>>],
   [kind |-> "array", facts |-> <<>>]}
  \cup {[kind |-> "array", facts |-> fs] : fs \in SeqsUpTo(ExtractedFacts, MaxBatch)}

callGemini(output) == IF output.kind = "array" THEN output.facts ELSE <<>>

isProcessed(lines, src) == src \in lines

\* a faulty variant that records nothing
markNothing(lines, src) == lines

markProcessed(lines, src) == lines \cup {src}

\* the lines main appends to facts.jsonl
factLines(facts, timestamp) ==
  [i \in 1..Len(facts) |->
     [key |-> facts[i].key, value |-> facts[i].value, message_timestamp |-> timestamp]]

\* main of 1-extract-facts.js on the file src: the ledger and facts.jsonl it
\* leaves, and its exit status.  After appending facts it calls
\* cleanGeminiSessions, which throws a ReferenceError (os is not defined), so
\* the process ends with status 1.
extractMain(lines, file, src, transcript, output) ==
  IF isProcessed(lines, src)
    THEN [ledger |-> lines, facts |-> file, exit |-> 0, outcome |-> "skipped"]
  ELSE IF transcript = "empty"
    THEN [ledger |-> markProcessed(lines, src), facts |-> file, exit |-> 0, outcome |-> "empty"]
  ELSE IF transcript = "noise"
    THEN [ledger |-> markProcessed(lines, src), facts |-> file, exit |-> 0, outcome |-> "noise"]
  ELSE IF callGemini(output) = <<>>
    THEN [ledger |-> markProcessed(lines, src), facts |-> file, exit |-> 0,
          outcome |-> IF output.kind = "array" THEN "noFacts" ELSE output.kind]
  ELSE [ledger |-> markProcessed(lines, src),
        facts |-> file \o factLines(callGemini(output), extractTimestamp(src)),
        exit |-> 1, outcome |-> "facts"]

\* ---------------------------------------------- 2-align-temporally.js
\* CATEGORY_ALIASES: a plural category prefix becomes singular
normalizeKey(key) == IF key = "users.name" THEN "user.name" ELSE key

\* the normalized keys of the facts, in order of first appearance
RECURSIVE groupKeys(_)
groupKeys(facts) ==
  IF facts = <<>> THEN <<>>
  ELSE LET front == groupKeys(SubSeq(facts, 1, Len(facts) - 1))
           key == normalizeKey(facts[Len(facts)].key)
       IN IF \E i \in DOMAIN front : front[i] = key THEN front ELSE Append(front, key)

\* entries.sort by message_timestamp: a stable sort
RECURSIVE sortByTimestamp(_)
sortByTimestamp(entries) ==
  IF entries = <<>> THEN <<>>
  ELSE LET front == sortByTimestamp(SubSeq(entries, 1, Len(entries) - 1))
           e == entries[Len(entries)]
           n == Cardinality({i \in DOMAIN front : front[i].message_timestamp <= e.message_timestamp})
       IN SubSeq(front, 1, n) \o <<e>> \o SubSeq(front, n + 1, Len(front))

\* keep the earliest entry of each value (compared as JSON.stringify(value))
RECURSIVE dedupe(_)
dedupe(entries) ==
  IF entries = <<>> THEN <<>>
  ELSE LET front == dedupe(SubSeq(entries, 1, Len(entries) - 1))
           e == entries[Len(entries)]
       IN IF \E i \in DOMAIN front : front[i].value = e.value THEN front ELSE Append(front, e)

\* faulty variant of the interval assignment: every entry is left open
timedOpen(key, deduped) ==
  [i \in 1..Len(deduped) |->
     [key |-> key, value |-> deduped[i].value,
      start_time |-> deduped[i].message_timestamp, end_time |-> NULL]]

timed(key, deduped) ==
  [i \in 1..Len(deduped) |->
     [key |-> key, value |-> deduped[i].value,
      start_time |-> deduped[i].message_timestamp,
      end_time |-> IF i < Len(deduped) THEN deduped[i + 1].message_timestamp ELSE NULL]]

RECURSIVE alignGroups(_, _, _)
alignGroups(facts, keys, i) ==
  IF i > Len(keys) THEN <<>>
  ELSE timed(keys[i], dedupe(sortByTimestamp(
               SelectSeq(facts, LAMBDA f : normalizeKey(f.key) = keys[i]))))
       \o alignGroups(facts, keys, i + 1)

alignFacts(facts) == alignGroups(facts, groupKeys(facts), 1)

\* ------------------------------------------ extract-agent-learnings.js
LearningKey == "agent.pattern.frequent_bash"

\* extractAgentLearnings(sessionPath): the transcript s1 uses a tool often
\* enough for a frequent-tool pattern, s2 yields no learning
extractAgentLearnings(src) ==
  IF src = "s1" THEN <<[key |-> LearningKey, value |-> "pattern"]>> ELSE <<>>

\* storeLearnings(learnings, dbPath): INSERT OR REPLACE of each learning at now
RECURSIVE storeLearnings(_, _, _)
storeLearnings(rows, now, learnings) ==
  IF learnings = <<>> THEN rows
  ELSE storeLearnings(
         insertOrReplace(rows, Row(learnings[1].key, learnings[1].value, now, NULL)),
         now, Tail(learnings))

\* dedupDecision with dedup disabled in digest-config.json (the default)
dedupDisabled(facts) == [i \in 1..Len(facts) |-> [action |-> "create", target |-> ""]]

\* ------------------------------------------------------ run_pipeline.sh
\* ./run_pipeline.sh <input_file>: truncate the intermediate files
StartSingle ==
  /\ run.pc = "idle"
  /\ \E src \in Sources :
       LET again == run.status = "finished" /\ run.mode = "single" /\ run.src = src
       IN run' = [NoRun EXCEPT !.pc = "extract", !.mode = "single", !.queue = <<src>>,
                               !.src = src, !.status = "running", !.ledger0 = ledger,
                               !.again = again, !.base = IF again THEN memories ELSE {}]
  /\ factsFile' = <<>>
  /\ timedFile' = <<>>
  /\ UNCHANGED <<storeVars, clock, procs, ledger, lockVars, indexVars, peer, otherVars>>

\* ./run_pipeline.sh --backfill <dir>: the files of the directory in sorted order
StartBackfill ==
  /\ run.pc = "idle"
  /\ run' = [NoRun EXCEPT !.pc = "extract", !.mode = "backfill", !.queue = <<"s1", "s2">>,
                          !.src = "s1", !.status = "running", !.ledger0 = ledger]
  /\ factsFile' = <<>>
  /\ timedFile' = <<>>
  /\ UNCHANGED <<storeVars, clock, procs, ledger, lockVars, indexVars, peer, otherVars>>

\* Step 1 for the next file; ram is check_ram's answer (MemAvailable is at
\* least MIN_FREE_MB), read in the batch loops only, which are the same in
\* --backfill, --backfill-all-openclaw-agents and --gemini.
\* Backfill: check_ram, then 1-extract-facts.js, and
\* a failure of either leaves the loop; single file: 1-extract-facts.js, and a
\* failure ends the script (set -e).
ExtractStage ==
  /\ run.pc = "extract"
  /\ \E ram \in BOOLEAN, transcript \in Transcripts, output \in GeminiOutputs :
       LET src == Head(run.queue)
           r == extractMain(ledger, factsFile, src, transcript, output)
       IN IF run.mode = "backfill" /\ ~ram
            THEN /\ run' = [run EXCEPT !.pc = "align", !.ram = ram]
                 /\ UNCHANGED <<ledger, factsFile>>
            ELSE /\ ledger' = r.ledger
                 /\ factsFile' = r.facts
                 /\ run' = [run EXCEPT
                      !.ram = ram,
                      !.calls = @ + 1,
                      !.exit = r.exit,
                      !.src = src,
                      !.outcome = r.outcome,
                      !.appended = Len(r.facts) - Len(factsFile),
                      !.failed = @ \/ r.outcome = "failed",
                      !.status = IF r.exit # 0 /\ run.mode = "single" THEN "aborted" ELSE @,
                      !.pc = IF r.exit = 0 THEN "learn"
                             ELSE IF run.mode = "single" THEN "idle" ELSE "align"]
  /\ UNCHANGED <<storeVars, clock, procs, timedFile, lockVars, indexVars, peer, otherVars>>

\* run_agent_learnings_for_file: extract-agent-learnings.js <file> --store || true
LearnStage ==
  /\ run.pc = "learn"
  /\ memories' = storeLearnings(memories, clock, extractAgentLearnings(Head(run.queue)))
  /\ run' = [run EXCEPT !.queue = Tail(@),
                        !.pc = IF Tail(run.queue) = <<>> THEN "align" ELSE "extract"]
  /\ UNCHANGED <<superseded, trail, clock, procs, ledger, factsFile, timedFile, lockVars, indexVars, peer, otherVars>>

\* Step 2: 2-align-temporally.js; a failing stage ends the script
AlignStage ==
  /\ run.pc = "align"
  /\ \E ok \in BOOLEAN :
       IF ok
         THEN /\ timedFile' = alignFacts(factsFile)
              /\ run' = [run EXCEPT !.pc = "commit"]
         ELSE /\ run' = [run EXCEPT !.pc = "idle", !.status = "aborted", !.failed = TRUE]
              /\ UNCHANGED timedFile
  /\ UNCHANGED <<storeVars, clock, procs, ledger, factsFile, lockVars, indexVars, peer, otherVars>>

\* Step 3: 3-commit-to-db.js; a failing commit is rolled back and ends the script
CommitStage ==
  /\ run.pc = "commit"
  /\ \E ok \in BOOLEAN :
       IF ok
         THEN LET s == commitFacts(memories, timedFile, dedupDisabled(timedFile))
              IN /\ memories' = s.rows
                 /\ trail' = s.path
                 /\ run' = [run EXCEPT !.pc = "idle", !.status = "finished"]
         ELSE /\ run' = [run EXCEPT !.pc = "idle", !.status = "aborted", !.failed = TRUE]
              /\ UNCHANGED <<memories, trail>>
  /\ UNCHANGED <<superseded, clock, procs, ledger, factsFile, timedFile, lockVars, indexVars, peer, otherVars>>

NextPipeline ==
  \/ Tick
  \/ StartSingle
  \/ StartBackfill
  \/ ExtractStage
  \/ LearnStage
  \/ AlignStage
  \/ CommitStage

SpecPipeline == Init /\ [][NextPipeline]_vars

\* --------------------------------- the scripts of steps 1 to 3 run by hand
\* facts.jsonl after 1-extract-facts.js has run on several sessions
RawFacts == [key : RawKeys, value : FactValues, message_timestamp : Times]

WriteFactsFile ==
  /\ \E facts \in SeqsUpTo(RawFacts, MaxBatch) : factsFile' = facts
  /\ run' = NoRun
  /\ UNCHANGED <<storeVars, clock, procs, ledger, timedFile, lockVars, indexVars, peer, otherVars>>

\* node 2-align-temporally.js
AlignMain ==
  /\ timedFile' = alignFacts(factsFile)
  /\ run' = NoRun
  /\ UNCHANGED <<storeVars, clock, procs, ledger, factsFile, lockVars, indexVars, peer, otherVars>>

\* node 3-commit-to-db.js; run.status tells that timed_facts.jsonl is the
\* batch the last step committed
CommitBatch ==
  /\ timedFile # <<>>
  /\ memories' = commitFacts(memories, timedFile, dedupDisabled(timedFile)).rows
  /\ run' = [NoRun EXCEPT !.status = "committed"]
  /\ UNCHANGED <<superseded, trail, clock, procs, ledger, factsFile, timedFile, lockVars, indexVars, peer, otherVars>>

NextRecommit ==
  \/ WriteFactsFile
  \/ AlignMain
  \/ CommitBatch

SpecRecommit == Init /\ [][NextRecommit]_vars

\* --------------------------------- facts.jsonl as it grows, then the aligner
\* the lines of facts.jsonl the aligner is run on: two spellings of one key
\* and a second key, string values
AlignKeys == RawKeys \cup {"tool.editor"}
AlignInputs == [key : AlignKeys, value : [str : {TRUE}, text : Values], message_timestamp : Times]

\* 1-extract-facts.js appends one more line to facts.jsonl
AppendFact ==
  /\ Len(factsFile) < MaxFacts
  /\ \E fact \in AlignInputs : factsFile' = Append(factsFile, fact)
  /\ run' = NoRun
  /\ UNCHANGED <<storeVars, clock, procs, ledger, timedFile, lockVars, indexVars, peer, otherVars>>

\* run_pipeline.sh clears the intermediate files before a fresh run
ClearFiles ==
  /\ factsFile' = <<>>
  /\ timedFile' = <<>>
  /\ run' = NoRun
  /\ UNCHANGED <<storeVars, clock, procs, ledger, lockVars, indexVars, peer, otherVars>>

NextAlign ==
  \/ AppendFact
  \/ ClearFiles
  \/ AlignMain

SpecAlign == Init /\ [][NextAlign]_vars

\* ------------------------------------------------------ dedup-decision.js
\* What the request to the Gemma API comes to: no API key, the 30 s timer,
\* a request error, a body that is not JSON, a text without a JSON object, a
\* text whose braces do not parse, or a parsed object with whatever action
\* and target the model wrote.
LlmFailures == {"noKey", "timeout", "requestFailed", "parseFailed", "noJson", "innerParseFailed"}
LlmReplies ==
  [kind : LlmFailures, action : {""}, target : {""}]
  \cup [kind : {"object"}, action : {"skip", "merge", "create", "other"}, target : Keys \cup {""}]

Create(reason) == [action |-> "create", target |-> "", reason |-> reason]

\* faulty variant of callGemmaForDedup: a timeout drops the fact
timeoutSkips(reply) ==
  IF reply.kind = "timeout" THEN [action |-> "skip", target |-> "", reason |-> "API timeout"]
  ELSE IF reply.kind = "object"
    THEN [action |-> reply.action, target |-> reply.target, reason |-> "llm"]
  ELSE Create("API request failed")

callGemmaForDedup(reply) ==
  IF reply.kind = "noKey" THEN Create("API key not available")
  ELSE IF reply.kind = "timeout" THEN Create("API timeout")
  ELSE IF reply.kind = "requestFailed" THEN Create("API request failed")
  ELSE IF reply.kind = "noJson" THEN Create("No JSON in response")
  ELSE IF reply.kind \in {"parseFailed", "innerParseFailed"} THEN Create("JSON parse failed")
  ELSE [action |-> reply.action, target |-> reply.target, reason |-> "llm"]

\* findSimilar(db, candidateVec, threshold, maxCount): the active rows among
\* the keys whose embedding is within the threshold of the candidate's
findSimilar(rows, near) == {k \in near : hasActive(rows, k)}

\* dedupDecision(candidate, db)
dedupDecision(rows, enabled, embedded, near, reply) ==
  IF ~enabled THEN Create("dedup disabled")
  ELSE IF ~embedded THEN Create("embed failed")
  ELSE IF findSimilar(rows, near) = {} THEN Create("no similar facts")
  ELSE callGemmaForDedup(reply)

\* 3-commit-to-db.js main with one timed fact and the decision made for it;
\* trail keeps the reason and the action of the decision, the key and the
\* value of the fact, and the branch commitFacts took
DedupCommit(fact, enabled, embedded, near, reply) ==
  LET d == dedupDecision(memories, enabled, embedded, near, reply)
      s == commitFacts(memories, <<fact>>, <<d>>)
  IN /\ memories' = s.rows
     /\ trail' = <<d.reason, d.action, fact.key, valStr(fact.value)>> \o s.path
     /\ superseded' = {}
     /\ UNCHANGED <<clock, procs, pipelineVars, lockVars, indexVars, peer, otherVars>>

\* dedup disabled: nothing is embedded and the LLM is not asked; the embedding
\* fails: the LLM is not asked; otherwise the similar rows and the reply count
NextDedup ==
  \/ \E fact \in TimedFactsOf(OneKey), reply \in [kind : {"noKey"}, action : {""}, target : {""}] :
       DedupCommit(fact, FALSE, FALSE, {}, reply)
  \/ \E fact \in TimedFactsOf(OneKey), reply \in [kind : {"noKey"}, action : {""}, target : {""}] :
       DedupCommit(fact, TRUE, FALSE, {}, reply)
  \/ \E fact \in TimedFactsOf(OneKey), near \in SUBSET OneKey, reply \in LlmReplies :
       DedupCommit(fact, TRUE, TRUE, near, reply)

SpecDedup == Init /\ [][NextDedup]_vars

\* ------------------------------------------------------------ memories_fts
\* An index entry: the text indexed under the rowid of the row that had this
\* primary key and value when the entry was made.
ftsEntry(k, s, v) == [key |-> k, start_time |-> s, value |-> v]

\* INSERT INTO memories_fts(memories_fts, rowid, key, value) VALUES('delete', ?, ?, ?)
ftsDelete(f, row) == f \ {ftsEntry(row.key, row.start_time, row.value)}

\* INSERT INTO memories_fts(rowid, key, value) VALUES (?, ?, ?)
ftsInsert(f, k, s, v) == f \cup {ftsEntry(k, s, v)}

\* the statements on memories_fts of one iteration of the loop of commitFacts
ftsCommitFact(rows, f, fact, decision) ==
  LET v == valStr(fact.value)
      upsertUnder(k) == ftsInsert(ftsDelete(f, findActive(rows, k)), k, fact.start_time, v)
  IN IF decision.action = "skip" THEN f
     ELSE IF decision.action = "merge" /\ decision.target # ""
             /\ hasActive(rows, decision.target)
       THEN upsertUnder(decision.target)
     ELSE IF hasActive(rows, fact.key)
       THEN IF findActive(rows, fact.key).value = v THEN f ELSE upsertUnder(fact.key)
     ELSE ftsInsert(f, fact.key, fact.start_time, v)

\* the statements on memories_fts of memory_store and of memory-cli.js store:
\* the entry of the active row is deleted before the UPDATE, the new entry is
\* inserted after the INSERT, which may have thrown
ftsStore(rows, f, now, key, value) ==
  LET cleaned == IF hasActive(rows, key) THEN ftsDelete(f, findActive(rows, key)) ELSE f
  IN IF pkExists(closeActive(rows, now, key), key, now)
       THEN cleaned
       ELSE ftsInsert(cleaned, key, now, value)

indexRest == <<superseded, trail, clock, procs, pipelineVars, lockVars, peer, otherVars>>

\* 3-commit-to-db.js main with one timed fact
IndexCommit(K) ==
  \E fact \in TimedFactsOf(K), decision \in DecisionsOf(K) :
    /\ memories' = commitFacts(memories, <<fact>>, <<decision>>).rows
    /\ fts' = ftsCommitFact(memories, fts, fact, decision)
    /\ UNCHANGED indexRest

\* the MCP tool memory_store
IndexMemoryStore(K) ==
  \E key \in K, value \in Values :
    /\ memories' = memory_store(memories, clock, key, value).rows
    /\ fts' = ftsStore(memories, fts, clock, key, value)
    /\ UNCHANGED indexRest

\* memory-cli.js store <key> <value>
IndexCmdStore(K) ==
  \E key \in K, value \in Values :
    /\ memories' = cmdStore(memories, clock, key, value).rows
    /\ fts' = ftsStore(memories, fts, clock, key, value)
    /\ UNCHANGED indexRest

\* the writers with their statements on memories_fts; storeInstincts,
\* storeErrors and deleteInstinct have none
NextIndex ==
  \/ Tick
  \/ IndexCommit(OneKey)
  \/ IndexMemoryStore(OneKey)
  \/ IndexCmdStore(OneKey)
  \/ StoreInstincts(OneKey, FALSE)
  \/ StoreErrors(OneKey, FALSE)
  \/ DeleteInstinct(OneKey, FALSE)

SpecIndex == Init /\ [][NextIndex]_vars

\* ------------------------------- two run_pipeline.sh <file> at the same time
\* the second invocation: it clears the intermediate files and runs step 1
PeerStart ==
  /\ peer.pc = "idle"
  /\ \E src \in Sources : peer' = [pc |-> "extract", src |-> src]
  /\ factsFile' = <<>>
  /\ timedFile' = <<>>
  /\ UNCHANGED <<storeVars, clock, procs, ledger, run, lockVars, indexVars, otherVars>>

PeerExtract ==
  /\ peer.pc = "extract"
  /\ \E transcript \in Transcripts, output \in GeminiOutputs :
       LET r == extractMain(ledger, factsFile, peer.src, transcript, output)
       IN /\ ledger' = r.ledger
          /\ factsFile' = r.facts
          /\ peer' = IF r.exit = 0 THEN [peer EXCEPT !.pc = "learn"] ELSE NoPeer
  /\ UNCHANGED <<storeVars, clock, procs, timedFile, run, lockVars, indexVars, otherVars>>

PeerLearn ==
  /\ peer.pc = "learn"
  /\ memories' = storeLearnings(memories, clock, extractAgentLearnings(peer.src))
  /\ peer' = [peer EXCEPT !.pc = "align"]
  /\ UNCHANGED <<superseded, trail, clock, procs, pipelineVars, lockVars, indexVars, otherVars>>

PeerAlign ==
  /\ peer.pc = "align"
  /\ \E ok \in BOOLEAN :
       IF ok
         THEN /\ timedFile' = alignFacts(factsFile)
              /\ peer' = [peer EXCEPT !.pc = "commit"]
         ELSE /\ peer' = NoPeer
              /\ UNCHANGED timedFile
  /\ UNCHANGED <<storeVars, clock, procs, ledger, factsFile, run, lockVars, indexVars, otherVars>>

PeerCommit ==
  /\ peer.pc = "commit"
  /\ \E ok \in BOOLEAN :
       memories' = IF ok THEN commitFacts(memories, timedFile, dedupDisabled(timedFile)).rows
                   ELSE memories
  /\ peer' = NoPeer
  /\ UNCHANGED <<superseded, trail, clock, procs, pipelineVars, lockVars, indexVars, otherVars>>

NextTwoRuns ==
  \/ StartSingle
  \/ ExtractStage
  \/ LearnStage
  \/ AlignStage
  \/ CommitStage
  \/ PeerStart
  \/ PeerExtract
  \/ PeerLearn
  \/ PeerAlign
  \/ PeerCommit

SpecTwoRuns == Init /\ [][NextTwoRuns]_vars

\* --------------------------------- token-monitor.js and token-monitor-worker.js
\* Date.now() - lock.timestamp > STALE_LOCK_MS; two instants of the clock are
\* further apart than STALE_LOCK_MS
isStale(rec, now) == now > rec.timestamp

\* faulty variant of the liveness probe: no pid is ever found dead
anyPidAlive(ws, pid) == TRUE

\* process.kill(pid, 0) does not throw
isAlive(ws, pid) == pid \in Pids /\ ws[pid].state = "running"

\* faulty variant of isLocked(): it removes whatever it finds and never blocks
neverLocked(seen, now, ws) == [locked |-> FALSE, unlink |-> seen.state # "absent"]

\* isLocked() on the lock file as it was read: what it returns, and whether
\* it unlinks the file
isLocked(seen, now, ws) ==
  IF seen.state = "absent" THEN [locked |-> FALSE, unlink |-> FALSE]
  ELSE IF seen.state = "corrupt" THEN [locked |-> FALSE, unlink |-> TRUE]
  ELSE IF isStale(seen, now) THEN [locked |-> FALSE, unlink |-> TRUE]
  ELSE IF isAlive(ws, seen.pid) THEN [locked |-> TRUE, unlink |-> FALSE]
  ELSE [locked |-> FALSE, unlink |-> TRUE]

\* fs.unlinkSync(LOCK_FILE): a hook that has the file open keeps writing to
\* the unlinked file
unlinked(hs) ==
  [h \in Hooks |-> IF hs[h].pc = "write" THEN [hs[h] EXCEPT !.seen = NoLock] ELSE hs[h]]

\* cleanup() of the worker
cleanup(file) == NoLock

Exit(h, outcome) == hooks' = [hooks EXCEPT ![h].pc = "done", ![h].outcome = outcome]

lockRest == <<storeVars, clock, procs, pipelineVars, indexVars, peer, otherVars>>

\* TOKEN_THRESHOLD = Math.floor(128000 * 0.65), MIN_FREE_MB
TOKEN_THRESHOLD == 83200
MIN_FREE_MB == 500

\* what the hook can be given: no promptTokenCount or one that is not a
\* number (a string), the number 0, numbers next to the threshold; free RAM
\* next to the floor
HookInputs ==
  [num : BOOLEAN, n : {0, TOKEN_THRESHOLD - 1, TOKEN_THRESHOLD}, freeMB : {MIN_FREE_MB - 1, MIN_FREE_MB}]

\* main() up to isLocked(): !promptTokens || typeof promptTokens !== 'number',
\* promptTokens < TOKEN_THRESHOLD, freeMB < MIN_FREE_MB
gate(input) ==
  IF ~input.num \/ input.n = 0 THEN "noTokens"
  ELSE IF input.n < TOKEN_THRESHOLD THEN "below"
  ELSE IF input.freeMB < MIN_FREE_MB THEN "lowRam"
  ELSE "pass"

\* main(): the input, the token threshold and the RAM check
HookStart(h) ==
  /\ hooks[h].pc = "idle"
  /\ \E input \in HookInputs :
       hooks' = [hooks EXCEPT ![h] =
                   IF gate(input) = "pass"
                     THEN [NoHook EXCEPT !.pc = "isLocked", !.input = input]
                     ELSE [NoHook EXCEPT !.pc = "done", !.outcome = gate(input)]]
  /\ UNCHANGED <<lock, workers, lockRest>>

\* isLocked(): existsSync and readFileSync
HookRead(h) ==
  /\ hooks[h].pc = "isLocked"
  /\ hooks' = [hooks EXCEPT ![h].seen = lock,
                            ![h].pc = IF lock.state = "absent" THEN "snapshot" ELSE "probe"]
  /\ UNCHANGED <<lock, workers, lockRest>>

\* isLocked(): the staleness test, the liveness probe and the unlink
HookProbe(h) ==
  /\ hooks[h].pc = "probe"
  /\ LET r == isLocked(hooks[h].seen, clock, workers)
         hs == IF r.unlink /\ lock.state # "absent" THEN unlinked(hooks) ELSE hooks
     IN /\ lock' = IF r.unlink THEN NoLock ELSE lock
        /\ hooks' = IF r.locked
                    THEN [hs EXCEPT ![h].pc = "done", ![h].outcome = "inProgress"]
                    ELSE [hs EXCEPT ![h].pc = "snapshot"]
  /\ UNCHANGED <<workers, lockRest>>

\* findLatestSession() and snapshotSession()
HookSnapshot(h) ==
  /\ hooks[h].pc = "snapshot"
  /\ \E ok \in BOOLEAN :
       IF ok THEN hooks' = [hooks EXCEPT ![h].pc = "fork"] ELSE Exit(h, "noSnapshot")
  /\ UNCHANGED <<lock, workers, lockRest>>

\* fork(EXTRACT_WORKER, [snapshotPath], {detached})
HookFork(h) ==
  /\ hooks[h].pc = "fork"
  /\ \E w \in Pids :
       /\ workers[w].state = "none"
       /\ \A v \in Pids : v < w => workers[v].state # "none"
       /\ workers' = [workers EXCEPT ![w] = [NoWorker EXCEPT !.state = "running", !.started = clock]]
       /\ hooks' = [hooks EXCEPT ![h].pc = "open", ![h].child = w]
  /\ UNCHANGED <<lock, lockRest>>

\* writeFileSync(LOCK_FILE, ...): the file is opened and truncated
HookOpen(h) ==
  /\ hooks[h].pc = "open"
  /\ lock' = CorruptLock
  /\ hooks' = [hooks EXCEPT ![h].pc = "write", ![h].seen = CorruptLock]
  /\ UNCHANGED <<workers, lockRest>>

\* writeFileSync(LOCK_FILE, ...): the record is written
HookWrite(h) ==
  /\ hooks[h].pc = "write"
  /\ lock' = IF hooks[h].seen = NoLock THEN lock ELSE LockRecord(hooks[h].child, clock)
  /\ Exit(h, "forked")
  /\ UNCHANGED <<workers, lockRest>>

\* process.exit(0); the host calls the hook again after its next response
HookExit(h) ==
  /\ hooks[h].pc = "done"
  /\ hooks' = [hooks EXCEPT ![h] = NoHook]
  /\ UNCHANGED <<lock, workers, lockRest>>

\* the worker leaves by one of its exit paths (no snapshot, low RAM, no
\* messages, a failed extractor, an error caught in main, success), each
\* through cleanup()
WorkerExit(w) ==
  /\ workers[w].state = "running"
  /\ workers' = [workers EXCEPT ![w].state = "exited"]
  /\ lock' = cleanup(lock)
  /\ hooks' = IF lock.state # "absent" THEN unlinked(hooks) ELSE hooks
  /\ UNCHANGED lockRest

\* the worker is terminated by a signal: it installs no handler
WorkerSignal(w) ==
  /\ workers[w].state = "running"
  /\ workers' = [workers EXCEPT ![w].state = "killed"]
  /\ UNCHANGED <<lock, hooks, lockRest>>

NextLock ==
  \/ Tick
  \/ \E h \in Hooks : HookStart(h)
  \/ \E h \in Hooks : HookRead(h)
  \/ \E h \in Hooks : HookProbe(h)
  \/ \E h \in Hooks : HookSnapshot(h)
  \/ \E h \in Hooks : HookFork(h)
  \/ \E h \in Hooks : HookOpen(h)
  \/ \E h \in Hooks : HookWrite(h)
  \/ \E h \in Hooks : HookExit(h)
  \/ \E w \in Pids : WorkerExit(w)
  \/ \E w \in Pids : WorkerSignal(w)

SpecLock == Init /\ [][NextLock]_vars

\* ------------------------------------------------------------ properties
closedRows(rows, key) == {r \in rows : r.key = key /\ r.end_time # NULL}

\* C1: every key has at most one row with end_time = NULL, after any sequence
\* of commitFacts, memory_store, CLI store, storeInstincts, storeErrors and
\* deleteInstinct calls made one after another.
OneActivePerKey ==
  \A k \in Keys : Cardinality(activeRows(memories, k)) <= 1

\* every key has been written several times: it has closed rows and an active one
OneActiveAfterSupersession ==
  \A k \in Keys : activeRows(memories, k) # {} /\ closedRows(memories, k) # {}

\* C2: when two store calls on the same key, or a store call and a pipeline
\* commit, have run with their statements interleaved and have finished, the
\* key has at most one active row.
OneActiveAfterConcurrentWriters ==
  (\A p \in Procs : procs[p].pc \in {"idle", "done", "failed"})
    => Cardinality(activeRows(memories, StoreKey)) <= 1

\* C3: when a writer closes the active row r1 of a key and inserts r2, the
\* end_time of r1 is the start_time of r2.
ClosedAtSuccessorStart ==
  \A e \in superseded : e.old # e.new => e.oldEnd = e.new

\* the last writer superseded a row that started earlier than its successor
SupersededEarlierRow ==
  \E e \in superseded : e.old < e.new /\ e.oldEnd = e.new

\* C4: a supersession inserts a row that starts after the row it closes, and
\* every closed row has start_time <= end_time.
StartTimesIncrease ==
  /\ \A e \in superseded : e.new > e.old
  /\ \A r \in memories : r.end_time # NULL => r.start_time <= r.end_time

\* C5: a step keeps every row with its key, value and start_time, and only
\* sets end_time on rows where it was NULL.
RowsAreKept ==
  [][\A r \in memories : \E q \in memories' :
        /\ q.key = r.key /\ q.value = r.value /\ q.start_time = r.start_time
        /\ r.end_time # NULL => q.end_time = r.end_time]_vars

\* C6: a commit of a fact whose value is the value of the active row of its
\* key leaves the table as it is, whatever the fact's timestamp.
SameValueIsSkipped ==
  [][\A fact \in TimedFactsOf(OneKey), decision \in DecisionsOf(OneKey) :
        (/\ CommitWith(fact, decision, TRUE)
         /\ hasActive(memories, fact.key)
         /\ findActive(memories, fact.key).value = valStr(fact.value))
        => memories' = memories]_vars

\* C7: committing the batch of timed_facts.jsonl a second time leaves the
\* memories table as the first commit left it.
RecommitChangesNothing ==
  [][(run.status = "committed" /\ CommitBatch) => memories' = memories]_vars

\* C8: a second run of the pipeline on the same source, right after a first
\* finished run, ends with the rows the table had when it started.
SecondRunAddsNoRows ==
  (run.status = "finished" /\ run.again) => memories = run.base

\* C9: when the extractor call, the align stage or the commit stage has failed
\* in a run, the ledger holds the source only if it held it before the run.
FailedRunLeavesLedger ==
  run.failed => (run.src \in ledger => run.src \in run.ledger0)

\* C10: a source that is empty, all noise, or whose extractor output is not a
\* JSON array adds no line to facts.jsonl and is recorded in the ledger, so
\* that 1-extract-facts.js skips it from then on; the script is not ended by
\* this extraction, and the commit of a single-file run commits nothing.
DegenerateSourceIsMarked ==
  run.outcome \in {"empty", "noise", "notArray"} =>
    /\ run.appended = 0
    /\ run.src \in ledger
    /\ \A transcript \in Transcripts, output \in GeminiOutputs :
         extractMain(ledger, factsFile, run.src, transcript, output).outcome = "skipped"
    /\ run.status = "aborted" => run.failed
    /\ (run.mode = "single" /\ run.status = "finished") => trail = <<>>

\* a single-file run on such a source has gone through all its stages
DegenerateRunFinished ==
  /\ run.outcome \in {"empty", "noise", "notArray"}
  /\ run.mode = "single" /\ run.status = "finished"
  /\ run.src \in ledger /\ run.src \notin run.ledger0


\* C11: when two token-monitor hooks run concurrently over the threshold,
\* exactly one forks a worker and the other forks nothing: two workers
\* forked within the same lock period never run side by side.
OneWorkerForked ==
  \A w1 \in Pids, w2 \in Pids :
    (w1 # w2 /\ workers[w1].state = "running" /\ workers[w2].state = "running")
      => workers[w1].started # workers[w2].started

\* the hook h takes a step from its lock check on to the snapshot
Proceeds(h) == hooks[h].pc \in {"isLocked", "probe"} /\ hooks'[h].pc = "snapshot"

\* the lock file as the hook h knows it when it decides
Known(h) == IF hooks[h].pc = "isLocked" THEN lock ELSE hooks[h].seen

YoungAndAlive(rec) ==
  rec.state = "record" /\ ~(clock > rec.timestamp) /\ workers[rec.pid].state = "running"

\* a hook that reads a record which is young and names a live pid stops and
\* leaves the lock file as it is
BlockedByLiveRecord(h) ==
  (hooks[h].pc = "probe" /\ hooks'[h].pc # "probe" /\ YoungAndAlive(hooks[h].seen))
    => (hooks'[h].pc = "done" /\ hooks'[h].outcome = "inProgress" /\ lock' = lock)

\* C12 as stated: a hook proceeds only if the lock record is absent, older
\* than the stale TTL, or names a pid that is not alive; a record that is
\* young and names a live pid stops the hook and is left unchanged.
ProceedsOnlyWithoutLiveLock ==
  [][\A h \in Hooks :
       /\ Proceeds(h) => (Known(h).state = "absent"
                           \/ (Known(h).state = "record" /\ ~YoungAndAlive(Known(h))))
       /\ BlockedByLiveRecord(h)]_vars

\* C12 (amended): a hook proceeds only if the lock file is absent, cannot be
\* parsed, is older than the stale TTL, or names a pid that is not alive; a
\* record that is young and names a live pid stops the hook and is left
\* unchanged.
ProceedsOnlyWithoutReadableLiveLock ==
  [][\A h \in Hooks :
       /\ Proceeds(h) => ~YoungAndAlive(Known(h))
       /\ BlockedByLiveRecord(h)]_vars

\* a hook was stopped by the record of a worker that is still running
StoppedByLiveRecord ==
  \E h \in Hooks :
    /\ hooks[h].outcome = "inProgress"
    /\ hooks[h].seen = lock
    /\ YoungAndAlive(lock)

\* C13: the worker removes the lock file on every exit path, termination by
\* a signal included: once a worker has stopped running, by any path, there
\* is no lock file.
WorkerRemovesLock ==
  [][\A w \in Pids :
       (workers[w].state = "running" /\ workers'[w].state \in {"exited", "killed"})
         => lock'.state = "absent"]_vars

\* C14: a hook is never stopped by the lock of a worker that has terminated,
\* whether the worker exited, failed or was killed, and whether the lock was
\* left behind or written by the parent after the worker had gone: the hook
\* that stops has read the record of a worker that is running.
NotBlockedByDeadWorker ==
  [][\A h \in Hooks :
       (hooks[h].pc = "probe" /\ hooks'[h].outcome = "inProgress")
         => (hooks[h].seen.state = "record"
             /\ workers[hooks[h].seen.pid].state = "running")]_vars

\* a hook has read the young record of a worker that exited before its parent
\* wrote the lock, and has gone on to fork a new worker
ForkedPastDeadWorker ==
  \E h \in Hooks :
    /\ hooks[h].pc = "open"
    /\ hooks[h].seen.state = "record"
    /\ hooks[h].seen.timestamp = clock
    /\ workers[hooks[h].seen.pid].state = "exited"
    /\ workers[hooks[h].child].state = "running"

\* C15: of two pipeline invocations started concurrently on the same
\* directory only one runs the stages; the other neither clears the
\* intermediate files nor extracts nor commits: the two are never both past
\* their start.
OnePipelineAtATime == ~(run.pc # "idle" /\ peer.pc # "idle")

\* C16: a store or upsert is atomic: when its insert is rejected because the
\* primary key (key, start_time) exists, the table is left as it was before
\* the call, the previously active row still active.
FailedStoreChangesNothing ==
  [][trail' = <<"conflict">> => memories' = memories]_vars

\* C17: after each completed commit, store, instinct store or delete, the
\* full-text index holds an entry for exactly the active rows.
IndexHoldsActiveRows ==
  fts = {ftsEntry(r.key, r.start_time, r.value) : r \in {a \in memories : a.end_time = NULL}}

\* C18: when the dedup decision for a fact is merge with target T and T has
\* an active row, the fact's value becomes the active row of T, the row
\* that was active is closed at the fact's start_time, and the rows of the
\* fact's own key are left alone.
MergeWritesUnderTarget ==
  [][\A fact \in TimedFacts, T \in Keys :
       (CommitWith(fact, [action |-> "merge", target |-> T], FALSE) /\ hasActive(memories, T))
         => LET a == findActive(memories, T)
            IN /\ activeRows(memories', T)
                    = {Row(T, valStr(fact.value), fact.start_time, NULL)}
               /\ Row(T, a.value, a.start_time, fact.start_time) \in memories'
               /\ (fact.key # T =>
                     {r \in memories' : r.key = fact.key} = {r \in memories : r.key = fact.key})]_vars

\* the reasons dedupDecision gives when it has not asked the LLM or has got
\* no decision from it
FallbackReasons ==
  {"dedup disabled", "embed failed", "no similar facts", "API key not available",
   "API timeout", "API request failed", "No JSON in response", "JSON parse failed"}

\* C19: whenever dedup is disabled, nothing similar exists, the embedding
\* fails, or the LLM times out, errors or returns unparseable output, the
\* decision is create and the fact is not dropped: after the commit its
\* value stands in a row of its key.
FallbackIsCreate ==
  (trail # <<>> /\ trail[1] \in FallbackReasons)
    => /\ trail[2] = "create"
       /\ \E r \in memories : r.key = trail[3] /\ r.value = trail[4]

\* a fact was committed after the LLM call had timed out
CommittedAfterTimeout ==
  /\ trail # <<>>
  /\ trail[1] = "API timeout"
  /\ trail[5] \in {"newCount", "updatedCount"}
  /\ \E r \in memories : r.key = trail[3] /\ r.value = trail[4]

\* the entries of facts.jsonl under the normalized key, sorted by timestamp
sortedGroup(facts, key) ==
  sortByTimestamp(SelectSeq(facts, LAMBDA f : normalizeKey(f.key) = key))

\* C20: the aligner collapses only consecutive entries of a key group that
\* share a value: an entry whose value differs from that of its immediate
\* predecessor in the sorted group is kept, with its own timestamp as
\* start_time, even if the same value occurred earlier in the group.
ValueChangeIsKept ==
  [][timedFile' # timedFile =>
       \A key \in Keys :
         LET g == sortedGroup(factsFile, key)
         IN \A i \in 2..Len(g) :
              g[i].value # g[i - 1].value
                => \E j \in DOMAIN timedFile' :
                     /\ timedFile'[j].key = key
                     /\ timedFile'[j].value = g[i].value
                     /\ timedFile'[j].start_time = g[i].message_timestamp]_vars

\* the entries of timed_facts.jsonl of one key, in file order
chainOf(file, key) == SelectSeq(file, LAMBDA t : t.key = key)

\* C21: for every key the aligner's output is a chain in timestamp order:
\* each entry starts at the message_timestamp of an input entry of the key
\* with its value, ends where the next one starts, and only the last one has
\* no end_time; the chain of a key is the one its own entries give alone.
AlignedChain ==
  [][AlignMain =>
       \A key \in Keys :
         LET c == chainOf(timedFile', key)
             own == SelectSeq(factsFile, LAMBDA f : normalizeKey(f.key) = key)
         IN /\ \A i \in DOMAIN c :
                 /\ \E n \in DOMAIN own : /\ own[n].value = c[i].value
                                           /\ own[n].message_timestamp = c[i].start_time
                 /\ IF i < Len(c)
                      THEN c[i].end_time = c[i + 1].start_time
                           /\ c[i].start_time <= c[i + 1].start_time
                      ELSE c[i].end_time = NULL
            /\ (own # <<>>) => c # <<>>
            /\ c = alignFacts(own)]_vars

\* the aligner has written a chain of two entries for one key next to an
\* entry of another key
ChainNextToOtherKey ==
  \E i \in DOMAIN timedFile, j \in DOMAIN timedFile, k \in DOMAIN timedFile :
    /\ timedFile[i].key = "user.name" /\ timedFile[i].end_time # NULL
    /\ timedFile[j].key = "user.name" /\ timedFile[j].end_time = NULL
    /\ timedFile[k].key = "tool.editor"

\* a step of memory_store or of memory-cli.js store with this key and value
StoreStep(key, value) ==
  /\ trail' \in {<<"stored">>, <<"conflict">>}
  /\ \/ memories' = memory_store(memories, clock, key, value).rows
     \/ memories' = cmdStore(memories, clock, key, value).rows

\* the key holds one row, active, written at or before now
StoredOnce(key, a) ==
  /\ {r \in memories : r.key = key} = {a}
  /\ a.end_time = NULL
  /\ a.start_time <= clock

\* C22: store(k, v1) at t1 followed by store(k, v2) at t2 >= t1 with another
\* value leaves k with the history v1 from t1 to t2, v2 from t2 and open;
\* t1 = t2 included.
StoreSupersedes ==
  [][\A key \in OneKey, value \in Values, a \in memories :
       (StoreStep(key, value) /\ StoredOnce(key, a) /\ a.value # value)
         => {r \in memories' : r.key = key}
              = {Row(key, a.value, a.start_time, clock), Row(key, value, clock, NULL)}]_vars

\* C23: the second of two store(k, v) calls with the same value is a skip:
\* it closes no row and inserts no row.
StoreSameValueSkips ==
  [][\A key \in OneKey, value \in Values, a \in memories :
       (StoreStep(key, value) /\ StoredOnce(key, a) /\ a.value = value)
         => memories' = memories]_vars

\* ---- the embedding column: memory_store and 5-embed-facts.js ----

\* a row's rowid stays with the row for its life; memory_store deletes no row,
\* so the pair (key, start_time) stands for the rowid
rowidOf(row) == <<row.key, row.start_time>>

\* SELECT rowid, key, value FROM memories WHERE embedding IS NULL AND end_time IS NULL
selectUnembedded(rows, emb) ==
  {rowidOf(r) : r \in {x \in rows : x.end_time = NULL /\ rowidOf(x) \notin emb}}

\* UPDATE memories SET embedding = ? WHERE rowid = ?, for each of the rowids
updateEmbedding(rows, emb, rowids) ==
  emb \cup {id \in rowids : \E r \in rows : rowidOf(r) = id}

embedRest == <<superseded, trail, clock, procs, pipelineVars, lockVars, indexVars, peer, tempVars, searchVars, digestVars, geminiVars, sessionVars, wkVars>>

\* memory_store up to its await of embedTexts: the statements on the table,
\* then the call for the new row's embedding
EmbedStore ==
  \E key \in OneKey, value \in Values :
    LET s == memory_store(memories, clock, key, value)
    IN /\ memories' = s.rows
       /\ flight' = IF s.ok THEN [flight EXCEPT !.store = @ \cup {<<key, clock>>}] ELSE flight
       /\ UNCHANGED <<embedding, embedRest>>

\* memory_store after the await: the embedding is written to newRow.rowid
EmbedStoreWrite ==
  \E id \in flight.store :
    /\ embedding' = updateEmbedding(memories, embedding, {id})
    /\ flight' = [flight EXCEPT !.store = @ \ {id}]
    /\ UNCHANGED <<memories, embedRest>>

\* embedTexts throws inside memory_store: "Auto-embed failed (non-fatal)"
EmbedStoreFail ==
  \E id \in flight.store :
    /\ flight' = [flight EXCEPT !.store = @ \ {id}]
    /\ UNCHANGED <<memories, embedding, embedRest>>

\* 5-embed-facts.js main up to its await of embedTexts
BackfillSelect ==
  /\ flight.backfill = {}
  /\ selectUnembedded(memories, embedding) # {}
  /\ flight' = [flight EXCEPT !.backfill = selectUnembedded(memories, embedding)]
  /\ UNCHANGED <<memories, embedding, embedRest>>

\* 5-embed-facts.js main after the await: one transaction of UPDATEs by rowid
BackfillWrite ==
  /\ flight.backfill # {}
  /\ embedding' = updateEmbedding(memories, embedding, flight.backfill)
  /\ flight' = [flight EXCEPT !.backfill = {}]
  /\ UNCHANGED <<memories, embedRest>>

\* embedTexts throws inside 5-embed-facts.js: exit 1, nothing written
BackfillFail ==
  /\ flight.backfill # {}
  /\ flight' = [flight EXCEPT !.backfill = {}]
  /\ UNCHANGED <<memories, embedding, embedRest>>

NextEmbed ==
  \/ Tick
  \/ EmbedStore
  \/ EmbedStoreWrite
  \/ EmbedStoreFail
  \/ BackfillSelect
  \/ BackfillWrite
  \/ BackfillFail

SpecEmbed == Init /\ [][NextEmbed]_vars

\* C24: an embedding is written only to a row that is active at the moment
\* of the write, also when the row was selected or inserted before the call
\* for its embedding was awaited
EmbeddingWrittenToActiveRow ==
  [][\A id \in embedding' \ embedding :
       \E r \in memories : rowidOf(r) = id /\ r.end_time = NULL]_vars

\* a run of extract-instincts.js --store that stores one instinct
InstinctStep(key, value) ==
  /\ trail' \in {<<"stored">>, <<"conflict">>}
  /\ memories' = storeInstincts(memories, clock, <<[key |-> key, value |-> value]>>).rows

\* C25: when extract-instincts.js --store stores an instinct under a key
\* that holds an active row, the earlier row is closed at the new row's
\* start_time and the key holds exactly one active row afterwards
InstinctSupersedes ==
  [][\A key \in OneKey, value \in Values, a \in memories :
       (InstinctStep(key, value) /\ a.key = key /\ a.end_time = NULL)
         => /\ \E n \in activeRows(memories', key) :
                 /\ activeRows(memories', key) = {n}
                 /\ Row(key, a.value, a.start_time, n.start_time) \in memories'
            /\ a \notin memories']_vars

\* C26: when the store holds two active rows for one key and a writer opens
\* it (3-commit-to-db.js main: ensureTable, then commitFacts), the earlier
\* row comes out closed at the later row's start_time and one row is active
TwoActiveRowsRecovered ==
  [][\A a, b \in activeRows(memories, StoreKey) :
       (CommitTransaction /\ a.start_time < b.start_time)
         => /\ Row(a.key, a.value, a.start_time, b.start_time) \in memories'
            /\ Cardinality(activeRows(memories', StoreKey)) = 1]_vars

\* the hook h forks a worker in this step
Forks(h) == hooks[h].child = 0 /\ hooks'[h].child # 0

\* the hook h writes to the lock file in this step
WritesLock(h) == hooks[h].pc \in {"open", "write"} /\ hooks'[h].pc # hooks[h].pc /\ lock' # lock

\* C27: the hook forks a worker only when promptTokenCount is a number of
\* at least 83,200, free RAM is at least 500 MB, no valid lock is held and
\* a snapshot was taken; a hook that forks nothing writes no lock
ForksOnlyWhenAllowed ==
  [][\A h \in Hooks :
       /\ Forks(h) => /\ hooks[h].input.num
                      /\ hooks[h].input.n >= TOKEN_THRESHOLD
                      /\ hooks[h].input.freeMB >= MIN_FREE_MB
                      /\ hooks[h].pc = "fork"
                      /\ ~YoungAndAlive(lock)
       /\ WritesLock(h) => hooks[h].child # 0]_vars

\* run_pipeline.sh calls 1-extract-facts.js in this step
ExtractorCalled == run.pc = "extract" /\ run'.calls > run.calls

\* C28: in every mode of run_pipeline.sh free RAM is checked before each
\* file's extractor call, and no extractor call is made for a file when free
\* RAM is below the floor
ExtractsOnlyWithFreeRam ==
  [][ExtractorCalled => run'.ram]_vars

\* C29: in the batch modes the failure of the extractor on one file does not
\* keep the remaining files of the run from being extracted
FailureKeepsRemainingFiles ==
  [][(ExtractorCalled /\ run.mode = "backfill" /\ run'.exit # 0 /\ Len(run.queue) > 1)
       => (run'.pc \in {"extract", "learn"} /\ run'.queue = run.queue)]_vars

\* ---- staging snapshots and temp files: token-monitor.js and its worker ----

\* a file named after the time it was created at: token-monitor-<Date.now()>-...
File(name) == [name |-> name, t |-> clock]

tempRest == <<storeVars, clock, procs, pipelineVars, lockVars, indexVars, peer, embedVars, searchVars, digestVars, geminiVars, sessionVars, wkVars>>

\* the job creates a file
Creates(j, f) == [j EXCEPT !.made = @ \cup {f}]

\* the process leaves by the path named
Leaves(j, path) == [j EXCEPT !.pc = "done", !.path = path]

\* fs.unlinkSync of the job's files of that name
unlinkNamed(fs, j, name) == fs \ {f \in j.made : f.name = name}

\* token-monitor.js main from snapshotSession() to fork(): the snapshot is
\* copied to the staging directory, then the worker is forked or fork throws
JobSnapshot ==
  /\ job.pc = "idle"
  /\ \E taken \in BOOLEAN, forked \in BOOLEAN :
       IF ~taken
         THEN /\ job' = Leaves(job, "noSnapshot")
              /\ UNCHANGED files
         ELSE /\ files' = files \cup {File("snapshot")}
              /\ job' = IF forked THEN [Creates(job, File("snapshot")) EXCEPT !.pc = "startup"]
                        ELSE Leaves(Creates(job, File("snapshot")), "forkFailed")
  /\ UNCHANGED tempRest

\* the worker before main(): the RAM check, cleanup() and process.exit(0)
WorkerStartup ==
  /\ job.pc = "startup"
  /\ \E ram \in BOOLEAN :
       job' = IF ram THEN [job EXCEPT !.pc = "convert"] ELSE Leaves(job, "lowRam")
  /\ UNCHANGED <<files, tempRest>>

\* main(): convertToJsonl and the write of tempJsonl
WorkerConvert ==
  /\ job.pc = "convert"
  /\ \E r \in {"throws", "noMessages", "ok"} :
       IF r = "ok"
         THEN /\ files' = files \cup {File("tempJsonl")}
              /\ job' = [Creates(job, File("tempJsonl")) EXCEPT !.pc = "extract"]
         ELSE /\ job' = Leaves(job, IF r = "throws" THEN "exception" ELSE "noMessages")
              /\ UNCHANGED files
  /\ UNCHANGED tempRest

\* main(): the second RAM check and 1-extract-facts.js; every return passes
\* the inner finally, which unlinks tempJsonl
WorkerExtract ==
  /\ job.pc = "extract"
  /\ \E ram \in BOOLEAN, status \in {0, 1}, facts \in BOOLEAN :
       IF ram /\ status = 0
         THEN /\ job' = [job EXCEPT !.pc = IF facts THEN "commit" ELSE "learn"]
              /\ UNCHANGED files
         ELSE /\ files' = unlinkNamed(files, job, "tempJsonl")
              /\ job' = Leaves(job, IF ~ram THEN "lowRamBeforeExtract" ELSE "extractFailed")
  /\ UNCHANGED tempRest

\* main() Step 3: tempFactsFile and alignedFile are written, used and
\* unlinked; a write that throws leaves through the inner finally
WorkerCommit ==
  /\ job.pc = "commit"
  /\ \E r \in {"ok", "factsWriteThrows", "alignedWriteThrows"} :
       LET withFacts == Creates(job, File("tempFacts"))
           withBoth == Creates(withFacts, File("aligned"))
       IN IF r = "ok"
            THEN /\ files' = files \ {File("tempFacts"), File("aligned")}
                 /\ job' = [withBoth EXCEPT !.pc = "learn"]
          ELSE IF r = "factsWriteThrows"
            THEN /\ files' = unlinkNamed(files, job, "tempJsonl")
                 /\ job' = Leaves(job, "exception")
          ELSE /\ files' = unlinkNamed(files, job, "tempJsonl") \cup {File("tempFacts")}
               /\ job' = Leaves(withFacts, "exception")
  /\ UNCHANGED tempRest

\* main() Steps 4 and 5, the inner finally, and the unlink of the snapshot
\* that follows it when nothing was thrown
WorkerLearn ==
  /\ job.pc = "learn"
  /\ \E throws \in BOOLEAN :
       IF throws
         THEN /\ files' = unlinkNamed(files, job, "tempJsonl")
              /\ job' = Leaves(job, "exception")
         ELSE /\ files' = unlinkNamed(unlinkNamed(files, job, "tempJsonl"), job, "snapshot")
              /\ job' = Leaves(job, "success")
  /\ UNCHANGED tempRest

\* the process has exited; the next extraction starts from the next hook call
JobExit ==
  /\ job.pc = "done"
  /\ job' = NoJob
  /\ UNCHANGED <<files, tempRest>>

NextTemp ==
  \/ Tick
  \/ JobSnapshot
  \/ WorkerStartup
  \/ WorkerConvert
  \/ WorkerExtract
  \/ WorkerCommit
  \/ WorkerLearn
  \/ JobExit

SpecTemp == Init /\ [][NextTemp]_vars

\* C30: every staging snapshot and temp file created for an extraction is
\* gone when the process that handles it has exited, by whichever path
TempFilesRemoved ==
  job.pc = "done" => job.made \cap files = {}

\* ---- memory_search: the list of active rows and the verdict filters ----

\* the part of a key before its first dot
categoryOf(key) == IF key \in {"user.name", "users.name"} THEN "user" ELSE "tool"

\* the calls: limit, subject (the key must include it), maxAgeDays (a day is
\* one tick of the clock; 0: not given) and the key prefix that type_mappings
\* gives for the type asked ("": no type, "all", or no prefixes)
SearchCalls ==
  [limit : 1..2, subject : {"", "user", "tool"}, maxAgeDays : 0..1, prefix : {"", "user.", "tool."}]

\* SELECT key, value, start_time FROM memories WHERE end_time IS NULL
\* ORDER BY start_time DESC LIMIT ?: each set is one answer of the database;
\* rows of equal start_time come in either order
selectLatest(rows, n) ==
  LET active == {r \in rows : r.end_time = NULL}
      size == IF Cardinality(active) < n THEN Cardinality(active) ELSE n
  IN {S \in SUBSET active :
        /\ Cardinality(S) = size
        /\ \A r \in S, o \in active \ S : r.start_time >= o.start_time}

\* applyVerdict's test of one row (sourceVerified excludes inferred.* keys, of
\* which the store of the model has none), then the type filter
passes(r, call, now) ==
  /\ call.subject # "" => categoryOf(r.key) = call.subject
  /\ call.maxAgeDays # 0 => ~(now - r.start_time > call.maxAgeDays)
  /\ call.prefix # "" => call.prefix = categoryOf(r.key) \o "."

applyVerdict(rows, call, now) == {r \in rows : passes(r, call, now)}

searchRest == <<superseded, trail, clock, procs, pipelineVars, lockVars, indexVars, peer, embedVars, tempVars, digestVars, geminiVars, sessionVars, wkVars>>

\* memory_search without keys, semantic, query or prefix
Search ==
  \E call \in SearchCalls :
    \E rows \in selectLatest(memories, call.limit) :
      /\ asked' = call
      /\ answer' = applyVerdict(rows, call, clock)
      /\ UNCHANGED <<memories, searchRest>>

NextSearch ==
  \/ Tick
  \/ MemoryStore(Keys, FALSE)
  \/ Search

SpecSearch == Init /\ [][NextSearch]_vars

\* C31: with verdict filters, memory_search returns the top limit rows
\* among the rows that pass the filters: when at least limit active rows pass
\* them, exactly limit rows are returned
SearchFillsLimit ==
  [][(asked' # asked \/ answer' # answer)
       => (Cardinality(applyVerdict({r \in memories : r.end_time = NULL}, asked', clock)) >= asked'.limit
             => Cardinality(answer') = asked'.limit)]_vars

\* ---- hybrid-search.js: mergeResults, with scores in hundredths ----

\* VECTOR_THRESHOLD = 0.3 and BM25_BONUS = 0.15
VECTOR_THRESHOLD == 30
BM25_BONUS == 15

\* mergeResults with the default weights 0.7 and 0.3: the entry of one row
\* of the result map and its final score (in 1/10000)
mergeResults(vectorResults, bm25Results) ==
  {LET inVector == key \in DOMAIN vectorResults
       bm25Hit == key \in DOMAIN bm25Results
       vectorScore == IF inVector THEN vectorResults[key] ELSE 50
       bm25Score == IF bm25Hit THEN bm25Results[key] ELSE 0
       base == vectorScore * 70 + bm25Score * 30
   IN [key |-> key, vectorScore |-> vectorScore, bm25Score |-> bm25Score, bm25Hit |-> bm25Hit,
       score |-> IF bm25Hit /\ vectorScore > VECTOR_THRESHOLD
                   THEN base + vectorScore * BM25_BONUS ELSE base]
     : key \in DOMAIN vectorResults \cup DOMAIN bm25Results}

\* hybridSearch, steps 1 to 3, on what vectorSearch returned (a similarity
\* of at least the threshold per row) and what bm25Search returned (a
\* normalised score per row); a row is known by its key
Merge ==
  \E vectorResults \in UNION {[K -> {30, 31, 90}] : K \in SUBSET Keys},
     bm25Results \in UNION {[K -> {0, 100}] : K \in SUBSET Keys} :
    /\ asked' = [vector |-> vectorResults, bm25 |-> bm25Results]
    /\ answer' = mergeResults(vectorResults, bm25Results)
    /\ UNCHANGED <<memories, searchRest>>

NextHybrid ==
  \/ Merge

SpecHybrid == Init /\ [][NextHybrid]_vars

\* C32: the bonus bm25_bonus x vectorScore is part of a row's score only if
\* the row was returned by the vector search and by the BM25 search and its
\* vector score is at least vector_threshold
BonusOnlyForBothHits ==
  \A r \in answer :
    r.score > r.vectorScore * 70 + r.bm25Score * 30
      => /\ r.key \in DOMAIN asked.vector
         /\ r.key \in DOMAIN asked.bm25
         /\ asked.vector[r.key] >= VECTOR_THRESHOLD

\* ---- 4-generate-digest.js and the summary operation ----

\* generateDigest: the active rows, counted in all and by the first segment
\* of the key
generateDigest(rows) ==
  LET active == {r \in rows : r.end_time = NULL}
      cats == {categoryOf(r.key) : r \in active}
  IN [present |-> TRUE,
      total_facts |-> Cardinality(active),
      categories |-> [c \in cats |-> Cardinality({r \in active : categoryOf(r.key) = c})]]

\* memory_summary on a digest: the categories of at least minCount facts,
\* the maxCats largest of them, and the sum of their counts.  Each element is
\* one answer; categories of equal count are cut in either order
memory_summary(d, minCount, maxCats) ==
  LET filtered == {c \in DOMAIN d.categories : d.categories[c] >= minCount}
      size == IF Cardinality(filtered) < maxCats THEN Cardinality(filtered) ELSE maxCats
      count(S, c) == IF c \in S THEN d.categories[c] ELSE 0
      sum(S) == count(S, "user") + count(S, "tool")
  IN {[totalFacts |-> sum(S), cats |-> S] :
        S \in {T \in SUBSET filtered :
                 /\ Cardinality(T) = size
                 /\ \A c \in T, o \in filtered \ T : d.categories[c] >= d.categories[o]}}

digestRest == <<superseded, trail, clock, procs, pipelineVars, lockVars, indexVars, peer, embedVars, tempVars, geminiVars, sessionVars, wkVars>>

\* node 4-generate-digest.js
GenerateDigest ==
  /\ digest' = generateDigest(memories)
  /\ UNCHANGED <<memories, asked, answer, digestRest>>

\* the tool memory_summary; digest-config.json gives min_count_for_l0 and
\* max_categories_in_l0, and 5 and 15 stand in when it cannot be read
Summary ==
  /\ digest.present
  /\ \E config \in [min_count_for_l0 : {1, 5}, max_categories_in_l0 : {1, 15}] :
       /\ asked' = config
       /\ answer' \in memory_summary(digest, config.min_count_for_l0, config.max_categories_in_l0)
  /\ UNCHANGED <<memories, digest, digestRest>>

NextDigest ==
  \/ Tick
  \/ MemoryStore(Keys, FALSE)
  \/ GenerateDigest
  \/ Summary

SpecDigest == Init /\ [][NextDigest]_vars

\* C33: the total that summary reports is the number of rows that were
\* active when the digest was made, and the digest counts active rows only
SummaryCountsActiveRows ==
  [][/\ GenerateDigest
          => digest'.total_facts = Cardinality({r \in memories : r.end_time = NULL})
     /\ Summary => answer'.totalFacts = digest.total_facts]_vars

\* ---- run_pipeline.sh --gemini and convert-gemini-sessions.js ----

\* the cap on the files of one run (50 unless the environment says otherwise)
MAX_SESSIONS_PER_RUN == 2

geminiRest == <<storeVars, clock, procs, pipelineVars, lockVars, indexVars, peer, embedVars, tempVars, searchVars, digestVars, sessionVars, wkVars>>

\* run_pipeline.sh --gemini to the loop: convert-gemini-sessions.js writes a
\* file for every session without a line of its mtime and marks each; with
\* no file the run ends
GeminiConvert ==
  /\ gemini.pc = "idle"
  /\ LET new == gemini.sessions \ gemini.tracked
     IN gemini' = [gemini EXCEPT !.tracked = gemini.sessions,
                                 !.outDir = new,
                                 !.converted = @ \cup new,
                                 !.count = 0,
                                 !.pc = IF new = {} THEN "idle" ELSE "extract"]
  /\ UNCHANGED geminiRest

\* one round of the loop of Step 1, in the order of the file names: the cap,
\* check_ram, 1-extract-facts.js; a break, or the end of the list, is
\* followed by rm -rf of the output directory
GeminiExtract ==
  /\ gemini.pc = "extract"
  /\ \E ram \in BOOLEAN, status \in {0, 1} :
       LET f == CHOOSE x \in gemini.outDir : \A o \in gemini.outDir : x <= o
           stops == gemini.count + 1 > MAX_SESSIONS_PER_RUN \/ ~ram \/ status # 0
           rest == gemini.outDir \ {f}
       IN gemini' = IF stops
                      THEN [gemini EXCEPT !.pc = "idle", !.outDir = {}, !.count = 0]
                    ELSE IF rest = {}
                      THEN [gemini EXCEPT !.pc = "idle", !.outDir = {}, !.count = 0,
                                          !.extracted = @ \cup {f}]
                    ELSE [gemini EXCEPT !.outDir = rest, !.count = @ + 1,
                                        !.extracted = @ \cup {f}]
  /\ UNCHANGED geminiRest

\* the Gemini CLI writes to a session file: its mtime no longer matches
SessionModified ==
  /\ \E g \in gemini.tracked : gemini' = [gemini EXCEPT !.tracked = @ \ {g}]
  /\ UNCHANGED geminiRest

NextGemini ==
  \/ GeminiConvert
  \/ GeminiExtract
  \/ SessionModified

SpecGemini == Init /\ [][NextGemini]_vars

\* C34: every session the converter converted is extracted in the end: a
\* converted session that was not extracted yet is still in the output
\* directory of the run, or the next run will convert it again
ConvertedIsExtractedLater ==
  \A g \in gemini.converted \ gemini.extracted :
    g \in gemini.outDir \/ g \notin gemini.tracked

\* C35: storing agent learnings under a key that has an active row
\* supersedes it: after the store the key has one active row, and the row
\* that was active before is closed at the start_time of the new row
LearningsSupersede ==
  [][LearnStage =>
       LET learnings == extractAgentLearnings(Head(run.queue))
       IN \A i \in 1..Len(learnings) :
            /\ Cardinality({r \in memories' : r.key = learnings[i].key /\ r.end_time = NULL}) = 1
            /\ \A r \in memories :
                 (r.key = learnings[i].key /\ r.end_time = NULL /\ r.start_time < clock)
                   => \E q \in memories' : /\ q.key = r.key
                                           /\ q.start_time = r.start_time
                                           /\ q.end_time = clock]_vars

\* C36: a worker that finishes its run leaves in place a lock record that
\* names another process which is still running
ExitKeepsOthersLock ==
  [][\A w \in Pids :
       (/\ WorkerExit(w)
        /\ lock.state = "record"
        /\ lock.pid # w
        /\ isAlive(workers, lock.pid))
       => lock' = lock]_vars

\* C37: no extracted fact is lost between extraction and commit: a fact of
\* facts.jsonl (its source is in the ledger, so it is never extracted
\* again) leaves the file only when its value stands in a row of its key
ExtractedFactsAreKept ==
  [][\A i \in DOMAIN factsFile :
       (\A j \in DOMAIN factsFile' : factsFile'[j] # factsFile[i])
         => \E r \in memories' : /\ r.key = normalizeKey(factsFile[i].key)
                                 /\ r.value = valStr(factsFile[i].value)]_vars

\* ---- gemini-session-extract.js: the SessionEnd / PreCompress hook ----

sessionRest == <<storeVars, clock, procs, pipelineVars, lockVars, indexVars, peer, embedVars, tempVars, searchVars, digestVars, geminiVars, wkVars>>

\* process.stdin.on('end'): isLocked(), the RAM check, the lock written
SessionHookStart(p) ==
  /\ ender[p].state = "none"
  /\ \E freeMB \in {MIN_FREE_MB - 1, MIN_FREE_MB} :
       LET r == isLocked(endLock, clock, ender)
           found == IF r.unlink THEN NoLock ELSE endLock
       IN IF r.locked
            THEN /\ ender' = [ender EXCEPT ![p] = [state |-> "exited", outcome |-> "inProgress"]]
                 /\ endLock' = found
          ELSE IF freeMB < MIN_FREE_MB
            THEN /\ ender' = [ender EXCEPT ![p] = [state |-> "exited", outcome |-> "lowRam"]]
                 /\ endLock' = found
          ELSE /\ ender' = [ender EXCEPT ![p].state = "running"]
               /\ endLock' = LockRecord(p, clock)
  /\ UNCHANGED sessionRest

\* main() to the end of the process: process.exit(0) where no session is
\* found, where the session is too small and after processSessionFile; a
\* rejection of main() goes through catch and finally, which unlinks the lock
SessionHookMain(p) ==
  /\ ender[p].state = "running"
  /\ \E path \in {"noSession", "tooSmall", "completed", "error"} :
       /\ ender' = [ender EXCEPT ![p] = [state |-> "exited", outcome |-> path]]
       /\ endLock' = IF path = "error" THEN NoLock ELSE endLock
  /\ UNCHANGED sessionRest

NextSession ==
  \/ Tick
  \/ \E p \in Pids : SessionHookStart(p)
  \/ \E p \in Pids : SessionHookMain(p)

SpecSession == Init /\ [][NextSession]_vars

\* C38: the hook removes its own lock file before it exits, on every path
\* through main
SessionHookRemovesLock ==
  [][\A p \in Pids :
       (/\ ender[p].state = "running"
        /\ ender'[p].state = "exited"
        /\ endLock = LockRecord(p, endLock.timestamp))
       => endLock'.state = "absent"]_vars

\* ---- token-monitor-worker.js main, Steps 2 and 3 ----

\* Steps 2 and 3 of main() on the snapshot src.  The worker measures its
\* FACTS_FILE, MEMORY_ROOT/facts.jsonl; 1-extract-facts.js appends to the
\* file its environment names, or to src/facts.jsonl; the worker reads what
\* its own file gained; 2-align-temporally.js and 3-commit-to-db.js are given
\* a file name, which they do not read: they work on the files of their
\* environment, or on src/facts.jsonl and src/timed_facts.jsonl.  The model
\* answers at most one fact for a snapshot
WorkerFacts ==
  \E src \in Sources, shared \in BOOLEAN, transcript \in Transcripts,
     output \in {o \in GeminiOutputs : Len(o.facts) <= 1} :
    LET before == Len(wk.rootFile)
        r == extractMain(ledger, IF shared THEN wk.rootFile ELSE factsFile, src, transcript, output)
        rootAfter == IF shared THEN r.facts ELSE wk.rootFile
        srcAfter == IF shared THEN factsFile ELSE r.facts
        produced == IF r.outcome = "facts"
                      THEN factLines(callGemini(output), extractTimestamp(src)) ELSE <<>>
        extractedFacts == SubSeq(rootAfter, before + 1, Len(rootAfter))
        commits == r.exit = 0 /\ extractedFacts # <<>>
        aligned == alignFacts(IF shared THEN rootAfter ELSE srcAfter)
    IN /\ ledger' = r.ledger
       /\ factsFile' = srcAfter
       /\ timedFile' = IF commits THEN aligned ELSE timedFile
       /\ memories' = IF commits THEN commitFacts(memories, aligned, dedupDisabled(aligned)).rows
                      ELSE memories
       /\ wk' = [rootFile |-> rootAfter, status |-> r.exit, produced |-> produced,
                 read |-> IF r.exit = 0 THEN extractedFacts ELSE <<>>,
                 committed |-> IF commits THEN aligned ELSE <<>>]
       /\ UNCHANGED <<superseded, trail, clock, procs, run, lockVars, indexVars, peer,
                      embedVars, tempVars, searchVars, digestVars, geminiVars, sessionVars>>

NextWorker ==
  \/ WorkerFacts

SpecWorker == Init /\ [][NextWorker]_vars

\* C39: the facts the worker commits in one run are the facts the extractor
\* produced from its snapshot: every one of them stands in a row of its key,
\* and the run commits no other fact
WorkerCommitsItsFacts ==
  /\ \A i \in DOMAIN wk.produced :
       \E r \in memories : /\ r.key = normalizeKey(wk.produced[i].key)
                           /\ r.value = valStr(wk.produced[i].value)
  /\ \A i \in DOMAIN wk.committed :
       \E j \in DOMAIN wk.produced :
         /\ normalizeKey(wk.produced[j].key) = wk.committed[i].key
         /\ wk.produced[j].value = wk.committed[i].value
====
